---- MODULE Spec2Model ----
(***************************************************************************)
(* Model of the google-classroom data model crate: the serde encode and    *)
(* decode behaviour of its wire types.  Every operation is a pure value    *)
(* transformation, so a behaviour is one request (drawn in Init) followed  *)
(* by the step that applies the requested operation to it.                 *)
(*                                                                         *)
(* A text is a sequence of characters; a character is a one-character      *)
(* string, or "U+xxxx" for a character outside ASCII.                      *)
(***************************************************************************)
EXTENDS Naturals, Sequences, FiniteSets

VARIABLES pc, req, res

vars == <<pc, req, res>>

(***************************************************************************)
(* Bounds                                                                  *)
(***************************************************************************)
\* longest owner-identifier text drawn as an input
MaxLen == 3

\* most keys of a Course payload, among those every Course carries, that a
\* drawn payload leaves out
MaxMissing == 2

(***************************************************************************)
(* Texts                                                                   *)
(***************************************************************************)
\* characters the owner-identifier inputs are built from: the letters of
\* "me" in both cases, ASCII digits, '@', ARABIC-INDIC DIGIT THREE (a
\* Unicode digit that is not an ASCII digit) and e-acute (non-ASCII)
OwnerChars == {"m", "e", "M", "E", "0", "7", "@", "U+0663", "U+00E9"}

RECURSIVE TextsUpTo(_, _)
TextsUpTo(chars, n) ==
    IF n = 0 THEN {<<>>}
    ELSE LET shorter == TextsUpTo(chars, n - 1)
         IN  shorter \cup {Append(t, c) : t \in shorter, c \in chars}

OwnerTexts == TextsUpTo(OwnerChars, MaxLen)

\* char::is_ascii_digit
is_ascii_digit(c) == c \in {"0", "1", "2", "3", "4", "5", "6", "7", "8", "9"}

\* v.chars().all(|c| c.is_ascii_digit())
all_ascii_digit(v) == \A i \in 1..Len(v) : is_ascii_digit(v[i])

\* the literal "me"
ME == <<"m", "e">>

(***************************************************************************)
(* Results and JSON values                                                 *)
(***************************************************************************)
Ok(v) == [ok |-> TRUE, val |-> v]
Err(e) == [ok |-> FALSE, err |-> e]

JStr(s) == [t |-> "str", s |-> s]
JNull == [t |-> "null"]
JNum == [t |-> "num"]
JBoolean(b) == [t |-> "bool", b |-> b]
JObj(m) == [t |-> "obj", m |-> m]
JArr(a) == [t |-> "arr", a |-> a]

(***************************************************************************)
(* OwnerId                                                                 *)
(***************************************************************************)
Email(s) == [tag |-> "Email", s |-> s]
Id(s) == [tag |-> "Id", s |-> s]
Me == [tag |-> "Me"]

OwnerIds == {Me} \cup {Email(s) : s \in OwnerTexts} \cup {Id(s) : s \in OwnerTexts}

\* impl Serialize for OwnerId with a slip: Me written as the empty text
OwnerIdSerializeNoMe(v) ==
    CASE v.tag = "Email" -> Ok(JStr(v.s))
      [] v.tag = "Id" -> Ok(JStr(v.s))
      [] v.tag = "Me" -> Ok(JStr(<<>>))

\* impl Serialize for OwnerId with a slip: an Id is validated before it is
\* written
OwnerIdSerializeValidated(v) ==
    CASE v.tag = "Email" -> Ok(JStr(v.s))
      [] v.tag = "Id" ->
            IF all_ascii_digit(v.s) THEN Ok(JStr(v.s)) ELSE Err("custom")
      [] v.tag = "Me" -> Ok(JStr(ME))

\* impl Serialize for OwnerId
OwnerIdSerialize(v) ==
    CASE v.tag = "Email" -> Ok(JStr(v.s))
      [] v.tag = "Id" -> Ok(JStr(v.s))
      [] v.tag = "Me" -> Ok(JStr(ME))

\* visit_string with a slip: any in place of all in the digit test
visit_string_any(v) ==
    IF v = ME THEN Ok(Me)
    ELSE IF \E i \in 1..Len(v) : is_ascii_digit(v[i]) THEN Ok(Id(v))
    ELSE Ok(Email(v))

\* visit_string with a slip: the text lower-cased before the "me" test
visit_string_nocase(v) ==
    IF [i \in 1..Len(v) |->
            IF v[i] = "M" THEN "m" ELSE IF v[i] = "E" THEN "e" ELSE v[i]] = ME
    THEN Ok(Me)
    ELSE IF all_ascii_digit(v) THEN Ok(Id(v))
    ELSE Ok(Email(v))

\* OwnerIdVisitor::visit_string
visit_string(v) ==
    IF v = ME THEN Ok(Me)
    ELSE IF all_ascii_digit(v) THEN Ok(Id(v))
    ELSE Ok(Email(v))

\* visit_str with a slip: "me" matched as a prefix, Id only for a non-empty
\* digit text, and text that is neither "me", digits nor an address rejected
visit_str_prefix(v) ==
    IF Len(v) >= 2 /\ SubSeq(v, 1, 2) = ME THEN Ok(Me)
    ELSE IF all_ascii_digit(v) THEN Ok(Id(v))
    ELSE Ok(Email(v))

visit_str_nonempty(v) ==
    IF v = ME THEN Ok(Me)
    ELSE IF Len(v) > 0 /\ all_ascii_digit(v) THEN Ok(Id(v))
    ELSE Ok(Email(v))

visit_str_strict(v) ==
    IF v = ME THEN Ok(Me)
    ELSE IF all_ascii_digit(v) THEN Ok(Id(v))
    ELSE IF \E i \in 1..Len(v) : v[i] = "@" THEN Ok(Email(v))
    ELSE Err("invalid_value")

\* OwnerIdVisitor::visit_str
visit_str(v) ==
    IF v = ME THEN Ok(Me)
    ELSE IF all_ascii_digit(v) THEN Ok(Id(v))
    ELSE Ok(Email(v))

\* impl Deserialize for OwnerId: deserializer.deserialize_string(OwnerIdVisitor).
\* A string is handed to visit_string when the deserializer owns it and to
\* visit_str when it borrows it; every other JSON value reaches a visit_*
\* method the visitor does not override, which reports an invalid type.
OwnerIdDeserialize(j, owned) ==
    IF j.t = "str"
    THEN IF owned THEN visit_string(j.s) ELSE visit_str(j.s)
    ELSE Err("invalid_type")

(***************************************************************************)
(* serde rename rules                                                      *)
(***************************************************************************)
LowerLetters ==
    <<"a", "b", "c", "d", "e", "f", "g", "h", "i", "j", "k", "l", "m",
      "n", "o", "p", "q", "r", "s", "t", "u", "v", "w", "x", "y", "z">>

UpperLetters ==
    <<"A", "B", "C", "D", "E", "F", "G", "H", "I", "J", "K", "L", "M",
      "N", "O", "P", "Q", "R", "S", "T", "U", "V", "W", "X", "Y", "Z">>

is_uppercase(c) == \E i \in 1..26 : UpperLetters[i] = c

is_lowercase(c) == \E i \in 1..26 : LowerLetters[i] = c

to_ascii_lowercase(c) ==
    IF is_uppercase(c)
    THEN LowerLetters[CHOOSE i \in 1..26 : UpperLetters[i] = c]
    ELSE c

to_ascii_uppercase(c) ==
    IF is_lowercase(c)
    THEN UpperLetters[CHOOSE i \in 1..26 : LowerLetters[i] = c]
    ELSE c

\* a field or variant without #[serde(rename = ...)], and one with it
NoRename == [set |-> FALSE]
Renamed(name) == [set |-> TRUE, name |-> name]

\* rename_all = "snake_case" on a variant: an underscore before every
\* upper-case character but the first, every character lower-cased
RECURSIVE snake_case(_, _)
snake_case(variant, i) ==
    IF i > Len(variant) THEN <<>>
    ELSE (IF i > 1 /\ is_uppercase(variant[i]) THEN <<"_">> ELSE <<>>)
            \o <<to_ascii_lowercase(variant[i])>>
            \o snake_case(variant, i + 1)

\* rename_all = "PascalCase" on a field: underscores dropped, the first
\* character and every character after an underscore upper-cased
RECURSIVE pascal_case(_, _, _)
pascal_case(field, i, capitalize) ==
    IF i > Len(field) THEN <<>>
    ELSE IF field[i] = "_" THEN pascal_case(field, i + 1, TRUE)
    ELSE IF capitalize
         THEN <<to_ascii_uppercase(field[i])>> \o pascal_case(field, i + 1, FALSE)
         ELSE <<field[i]>> \o pascal_case(field, i + 1, FALSE)

lower_first(s) == IF Len(s) = 0 THEN s ELSE <<to_ascii_lowercase(s[1])>> \o Tail(s)

\* the wire name of a variant under the container's rename_all rule
apply_to_variant(rule, variant) ==
    CASE rule = "none" -> variant
      [] rule = "camelCase" -> lower_first(variant)
      [] rule = "SCREAMING_SNAKE_CASE" ->
            LET snake == snake_case(variant, 1)
            IN  [i \in 1..Len(snake) |-> to_ascii_uppercase(snake[i])]

\* the wire name of a field under the container's rename_all rule
apply_to_field(rule, field) ==
    CASE rule = "none" -> field
      [] rule = "camelCase" -> lower_first(pascal_case(field, 1, TRUE))

\* the wire name of the i-th variant of an enum: its own rename attribute
\* when it has one, otherwise the container's rule applied to its identifier
variant_name(decl, i) ==
    IF decl.variants[i].rename.set
    THEN decl.variants[i].rename.name
    ELSE apply_to_variant(decl.rename_all, decl.variants[i].ident)

\* the wire name of the i-th field of a struct
field_name(decl, i) ==
    IF decl.fields[i].rename.set
    THEN decl.fields[i].rename.name
    ELSE apply_to_field(decl.rename_all, decl.fields[i].ident)

(***************************************************************************)
(* Closed enums                                                            *)
(***************************************************************************)
\* enum CourseState (src/model/courses/mod.rs)
CourseState ==
  [rename_all |-> "SCREAMING_SNAKE_CASE", variants |-> <<
    \* CourseStateUnspecified
    [ident |-> <<"C", "o", "u", "r", "s", "e", "S", "t", "a", "t", "e", "U",
               "n", "s", "p", "e", "c", "i", "f", "i", "e", "d">>,
     rename |-> NoRename],
    \* Active
    [ident |-> <<"A", "c", "t", "i", "v", "e">>,
     rename |-> NoRename],
    \* Archived
    [ident |-> <<"A", "r", "c", "h", "i", "v", "e", "d">>,
     rename |-> NoRename],
    \* Provisioned
    [ident |-> <<"P", "r", "o", "v", "i", "s", "i", "o", "n", "e", "d">>,
     rename |-> NoRename],
    \* Declined
    [ident |-> <<"D", "e", "c", "l", "i", "n", "e", "d">>,
     rename |-> NoRename],
    \* Suspended
    [ident |-> <<"S", "u", "s", "p", "e", "n", "d", "e", "d">>,
     rename |-> NoRename]
  >>]

\* enum CalculationType (src/model/courses/mod.rs)
CalculationType ==
  [rename_all |-> "SCREAMING_SNAKE_CASE", variants |-> <<
    \* CalculationTypeUnspecified
    [ident |-> <<"C", "a", "l", "c", "u", "l", "a", "t", "i", "o", "n", "T",
               "y", "p", "e", "U", "n", "s", "p", "e", "c", "i", "f", "i",
               "e", "d">>,
     rename |-> NoRename],
    \* TotalPoints
    [ident |-> <<"T", "o", "t", "a", "l", "P", "o", "i", "n", "t", "s">>,
     rename |-> NoRename],
    \* WeightedCategories
    [ident |-> <<"W", "e", "i", "g", "h", "t", "e", "d", "C", "a", "t", "e",
               "g", "o", "r", "i", "e", "s">>,
     rename |-> NoRename]
  >>]

\* enum DisplaySetting (src/model/courses/mod.rs)
DisplaySetting ==
  [rename_all |-> "SCREAMING_SNAKE_CASE", variants |-> <<
    \* DisplaySettingUnspecified
    [ident |-> <<"D", "i", "s", "p", "l", "a", "y", "S", "e", "t", "t", "i",
               "n", "g", "U", "n", "s", "p", "e", "c", "i", "f", "i", "e",
               "d">>,
     rename |-> NoRename],
    \* ShowOverallGrade
    [ident |-> <<"S", "h", "o", "w", "O", "v", "e", "r", "a", "l", "l", "G",
               "r", "a", "d", "e">>,
     rename |-> NoRename],
    \* HideOverallGrade
    [ident |-> <<"H", "i", "d", "e", "O", "v", "e", "r", "a", "l", "l", "G",
               "r", "a", "d", "e">>,
     rename |-> NoRename],
    \* ShowTeachersOnly
    [ident |-> <<"S", "h", "o", "w", "T", "e", "a", "c", "h", "e", "r", "s",
               "O", "n", "l", "y">>,
     rename |-> NoRename]
  >>]

\* enum AssigneeMode (src/model/mod.rs)
AssigneeMode ==
  [rename_all |-> "SCREAMING_SNAKE_CASE", variants |-> <<
    \* AssigneeModeUnspecified
    [ident |-> <<"A", "s", "s", "i", "g", "n", "e", "e", "M", "o", "d", "e",
               "U", "n", "s", "p", "e", "c", "i", "f", "i", "e", "d">>,
     rename |-> NoRename],
    \* AllStudents
    [ident |-> <<"A", "l", "l", "S", "t", "u", "d", "e", "n", "t", "s">>,
     rename |-> NoRename],
    \* IndividiualStudents
    [ident |-> <<"I", "n", "d", "i", "v", "i", "d", "i", "u", "a", "l", "S",
               "t", "u", "d", "e", "n", "t", "s">>,
     rename |-> NoRename]
  >>]

\* enum CourseWorkType (src/model/mod.rs)
CourseWorkType ==
  [rename_all |-> "SCREAMING_SNAKE_CASE", variants |-> <<
    \* CourseWorkTypeUnspecified
    [ident |-> <<"C", "o", "u", "r", "s", "e", "W", "o", "r", "k", "T", "y",
               "p", "e", "U", "n", "s", "p", "e", "c", "i", "f", "i", "e",
               "d">>,
     rename |-> NoRename],
    \* Assignment
    [ident |-> <<"A", "s", "s", "i", "g", "n", "m", "e", "n", "t">>,
     rename |-> NoRename],
    \* ShortAnswerQuestion
    [ident |-> <<"S", "h", "o", "r", "t", "A", "n", "s", "w", "e", "r", "Q",
               "u", "e", "s", "t", "i", "o", "n">>,
     rename |-> NoRename],
    \* MultipleChoiceQuestion
    [ident |-> <<"M", "u", "l", "t", "i", "p", "l", "e", "C", "h", "o", "i",
               "c", "e", "Q", "u", "e", "s", "t", "i", "o", "n">>,
     rename |-> NoRename]
  >>]

\* enum DriveFileShareMode (src/model/mod.rs)
DriveFileShareMode ==
  [rename_all |-> "SCREAMING_SNAKE_CASE", variants |-> <<
    \* UnknownShareMode
    [ident |-> <<"U", "n", "k", "n", "o", "w", "n", "S", "h", "a", "r", "e",
               "M", "o", "d", "e">>,
     rename |-> NoRename],
    \* View
    [ident |-> <<"V", "i", "e", "w">>,
     rename |-> NoRename],
    \* Edit
    [ident |-> <<"E", "d", "i", "t">>,
     rename |-> NoRename],
    \* StudentCopy
    [ident |-> <<"S", "t", "u", "d", "e", "n", "t", "C", "o", "p", "y">>,
     rename |-> NoRename]
  >>]

\* enum AssigneeMode (src/model.rs)
AssigneeMode_model_rs ==
  [rename_all |-> "none", variants |-> <<
    \* Unspecified = "ASSIGNEE_MODE_UNSPECIFIED"
    [ident |-> <<"U", "n", "s", "p", "e", "c", "i", "f", "i", "e", "d">>,
     rename |-> Renamed(<<"A", "S", "S", "I", "G", "N", "E", "E", "_", "M",
                "O", "D", "E", "_", "U", "N", "S", "P", "E", "C", "I", "F",
                "I", "E", "D">>)],
    \* AllStudents = "ALL_STUDENTS"
    [ident |-> <<"A", "l", "l", "S", "t", "u", "d", "e", "n", "t", "s">>,
     rename |-> Renamed(<<"A", "L", "L", "_", "S", "T", "U", "D", "E", "N",
                "T", "S">>)],
    \* IndividiualStudents = "INDIVIDUAL_STUDENTS"
    [ident |-> <<"I", "n", "d", "i", "v", "i", "d", "i", "u", "a", "l", "S",
               "t", "u", "d", "e", "n", "t", "s">>,
     rename |-> Renamed(<<"I", "N", "D", "I", "V", "I", "D", "U", "A", "L",
                "_", "S", "T", "U", "D", "E", "N", "T", "S">>)]
  >>]

\* enum CourseWorkType (src/model.rs)
CourseWorkType_model_rs ==
  [rename_all |-> "none", variants |-> <<
    \* Unspecified = "COURSE_WORK_TYPE_UNSPECIFIED"
    [ident |-> <<"U", "n", "s", "p", "e", "c", "i", "f", "i", "e", "d">>,
     rename |-> Renamed(<<"C", "O", "U", "R", "S", "E", "_", "W", "O", "R",
                "K", "_", "T", "Y", "P", "E", "_", "U", "N", "S", "P", "E",
                "C", "I", "F", "I", "E", "D">>)],
    \* Assignment = "ASSIGNMENT"
    [ident |-> <<"A", "s", "s", "i", "g", "n", "m", "e", "n", "t">>,
     rename |-> Renamed(<<"A", "S", "S", "I", "G", "N", "M", "E", "N", "T">>)],
    \* ShortAnswer = "SHORT_ANSWER_QUESTION"
    [ident |-> <<"S", "h", "o", "r", "t", "A", "n", "s", "w", "e", "r">>,
     rename |-> Renamed(<<"S", "H", "O", "R", "T", "_", "A", "N", "S", "W",
                "E", "R", "_", "Q", "U", "E", "S", "T", "I", "O", "N">>)],
    \* MultipleChoice = "MULTIPLE_CHOICE_QUESTION"
    [ident |-> <<"M", "u", "l", "t", "i", "p", "l", "e", "C", "h", "o", "i",
               "c", "e">>,
     rename |-> Renamed(<<"M", "U", "L", "T", "I", "P", "L", "E", "_", "C",
                "H", "O", "I", "C", "E", "_", "Q", "U", "E", "S", "T", "I",
                "O", "N">>)]
  >>]

\* enum DriveFileShareMode (src/model.rs)
DriveFileShareMode_model_rs ==
  [rename_all |-> "none", variants |-> <<
    \* Unknown = "UNKNOWN_SHARE_MODE"
    [ident |-> <<"U", "n", "k", "n", "o", "w", "n">>,
     rename |-> Renamed(<<"U", "N", "K", "N", "O", "W", "N", "_", "S", "H",
                "A", "R", "E", "_", "M", "O", "D", "E">>)],
    \* View = "VIEW"
    [ident |-> <<"V", "i", "e", "w">>,
     rename |-> Renamed(<<"V", "I", "E", "W">>)],
    \* Edit = "EDIT"
    [ident |-> <<"E", "d", "i", "t">>,
     rename |-> Renamed(<<"E", "D", "I", "T">>)],
    \* Copy = "STUDENT_COPY"
    [ident |-> <<"C", "o", "p", "y">>,
     rename |-> Renamed(<<"S", "T", "U", "D", "E", "N", "T", "_", "C", "O",
                "P", "Y">>)]
  >>]
EnumNames ==
    {"CourseState", "CalculationType", "DisplaySetting", "AssigneeMode",
     "CourseWorkType", "DriveFileShareMode", "AssigneeMode@model.rs",
     "CourseWorkType@model.rs", "DriveFileShareMode@model.rs"}

EnumDecl(name) ==
    CASE name = "CourseState" -> CourseState
      [] name = "CalculationType" -> CalculationType
      [] name = "DisplaySetting" -> DisplaySetting
      [] name = "AssigneeMode" -> AssigneeMode
      [] name = "CourseWorkType" -> CourseWorkType
      [] name = "DriveFileShareMode" -> DriveFileShareMode
      [] name = "AssigneeMode@model.rs" -> AssigneeMode_model_rs
      [] name = "CourseWorkType@model.rs" -> CourseWorkType_model_rs
      [] name = "DriveFileShareMode@model.rs" -> DriveFileShareMode_model_rs

\* the wire names of the variants of every enum, in declaration order; the
\* derive fixes them when the crate is compiled
VariantNames ==
    [name \in EnumNames |->
        [i \in 1..Len(EnumDecl(name).variants) |-> variant_name(EnumDecl(name), i)]]

\* derived Deserialize of an enum of unit variants: the text must be the
\* wire name of a variant, anything else is an unknown-variant error
EnumDeserialize(name, j) ==
    LET decl == EnumDecl(name)
        names == VariantNames[name]
    IN  IF j.t # "str" THEN Err("invalid_type")
        ELSE IF \E i \in 1..Len(decl.variants) : names[i] = j.s
        THEN Ok(decl.variants[
                CHOOSE i \in 1..Len(decl.variants) : names[i] = j.s].ident)
        ELSE Err("unknown_variant")

\* derived Serialize of an enum of unit variants: the variant's wire name
EnumSerialize(name, ident) ==
    LET decl == EnumDecl(name)
    IN  Ok(JStr(VariantNames[name][
            CHOOSE i \in 1..Len(decl.variants) : decl.variants[i].ident = ident]))

(***************************************************************************)
(* Field types, structs and the Material union                             *)
(***************************************************************************)
TString == [k |-> "String"]
TBool == [k |-> "bool"]
TOwnerId == [k |-> "OwnerId"]
TDateTime == [k |-> "DateTime"]
TEnum(name) == [k |-> "enum", name |-> name]
TStruct(name) == [k |-> "struct", name |-> name]
TOption(ty) == [k |-> "Option", of |-> ty]
TVec(ty) == [k |-> "Vec", of |-> ty]

\* Option values
None == [some |-> FALSE]
Some(x) == [some |-> TRUE, v |-> x]

\* struct CourseCreate (src/model/courses/mod.rs)
CourseCreate ==
  [rename_all |-> "camelCase", fields |-> <<
    \* id: Option<String>
    [ident |-> <<"i", "d">>,
     rename |-> NoRename,
     ty |-> TOption(TString)],
    \* name: String
    [ident |-> <<"n", "a", "m", "e">>,
     rename |-> NoRename,
     ty |-> TString],
    \* section: Option<String>
    [ident |-> <<"s", "e", "c", "t", "i", "o", "n">>,
     rename |-> NoRename,
     ty |-> TOption(TString)],
    \* description_heading: Option<String>
    [ident |-> <<"d", "e", "s", "c", "r", "i", "p", "t", "i", "o", "n", "_",
               "h", "e", "a", "d", "i", "n", "g">>,
     rename |-> NoRename,
     ty |-> TOption(TString)],
    \* description: Option<String>
    [ident |-> <<"d", "e", "s", "c", "r", "i", "p", "t", "i", "o", "n">>,
     rename |-> NoRename,
     ty |-> TOption(TString)],
    \* room: Option<String>
    [ident |-> <<"r", "o", "o", "m">>,
     rename |-> NoRename,
     ty |-> TOption(TString)],
    \* owner_id: OwnerId
    [ident |-> <<"o", "w", "n", "e", "r", "_", "i", "d">>,
     rename |-> NoRename,
     ty |-> TOwnerId],
    \* course_state: Option<CourseState>
    [ident |-> <<"c", "o", "u", "r", "s", "e", "_", "s", "t", "a", "t", "e">>,
     rename |-> NoRename,
     ty |-> TOption(TEnum("CourseState"))]
  >>]

\* CourseModify with name declared String, as CourseCreate declares it
CourseModify_name_required ==
  [rename_all |-> "camelCase", fields |-> <<
    \* name: String
    [ident |-> <<"n", "a", "m", "e">>,
     rename |-> NoRename,
     ty |-> TString],
    \* section: Option<String>
    [ident |-> <<"s", "e", "c", "t", "i", "o", "n">>,
     rename |-> NoRename,
     ty |-> TOption(TString)],
    \* description_heading: Option<String>
    [ident |-> <<"d", "e", "s", "c", "r", "i", "p", "t", "i", "o", "n", "_",
               "h", "e", "a", "d", "i", "n", "g">>,
     rename |-> NoRename,
     ty |-> TOption(TString)],
    \* description: Option<String>
    [ident |-> <<"d", "e", "s", "c", "r", "i", "p", "t", "i", "o", "n">>,
     rename |-> NoRename,
     ty |-> TOption(TString)],
    \* room: Option<String>
    [ident |-> <<"r", "o", "o", "m">>,
     rename |-> NoRename,
     ty |-> TOption(TString)],
    \* owner_id: Option<OwnerId>
    [ident |-> <<"o", "w", "n", "e", "r", "_", "i", "d">>,
     rename |-> NoRename,
     ty |-> TOption(TOwnerId)],
    \* course_state: Option<CourseState>
    [ident |-> <<"c", "o", "u", "r", "s", "e", "_", "s", "t", "a", "t", "e">>,
     rename |-> NoRename,
     ty |-> TOption(TEnum("CourseState"))]
  >>]

\* struct CourseModify (src/model/courses/mod.rs)
CourseModify ==
  [rename_all |-> "camelCase", fields |-> <<
    \* name: Option<String>
    [ident |-> <<"n", "a", "m", "e">>,
     rename |-> NoRename,
     ty |-> TOption(TString)],
    \* section: Option<String>
    [ident |-> <<"s", "e", "c", "t", "i", "o", "n">>,
     rename |-> NoRename,
     ty |-> TOption(TString)],
    \* description_heading: Option<String>
    [ident |-> <<"d", "e", "s", "c", "r", "i", "p", "t", "i", "o", "n", "_",
               "h", "e", "a", "d", "i", "n", "g">>,
     rename |-> NoRename,
     ty |-> TOption(TString)],
    \* description: Option<String>
    [ident |-> <<"d", "e", "s", "c", "r", "i", "p", "t", "i", "o", "n">>,
     rename |-> NoRename,
     ty |-> TOption(TString)],
    \* room: Option<String>
    [ident |-> <<"r", "o", "o", "m">>,
     rename |-> NoRename,
     ty |-> TOption(TString)],
    \* owner_id: Option<OwnerId>
    [ident |-> <<"o", "w", "n", "e", "r", "_", "i", "d">>,
     rename |-> NoRename,
     ty |-> TOption(TOwnerId)],
    \* course_state: Option<CourseState>
    [ident |-> <<"c", "o", "u", "r", "s", "e", "_", "s", "t", "a", "t", "e">>,
     rename |-> NoRename,
     ty |-> TOption(TEnum("CourseState"))]
  >>]

\* struct Course (src/model/courses/mod.rs); creation_time and update_time
\* exist only in a build with the chrono feature
Course(chrono) ==
  [rename_all |-> "camelCase", fields |-> <<
    \* id: String
    [ident |-> <<"i", "d">>,
     rename |-> NoRename,
     ty |-> TString],
    \* name: String
    [ident |-> <<"n", "a", "m", "e">>,
     rename |-> NoRename,
     ty |-> TString],
    \* section: Option<String>
    [ident |-> <<"s", "e", "c", "t", "i", "o", "n">>,
     rename |-> NoRename,
     ty |-> TOption(TString)],
    \* description_heading: Option<String>
    [ident |-> <<"d", "e", "s", "c", "r", "i", "p", "t", "i", "o", "n", "_",
               "h", "e", "a", "d", "i", "n", "g">>,
     rename |-> NoRename,
     ty |-> TOption(TString)],
    \* description: Option<String>
    [ident |-> <<"d", "e", "s", "c", "r", "i", "p", "t", "i", "o", "n">>,
     rename |-> NoRename,
     ty |-> TOption(TString)],
    \* room: Option<String>
    [ident |-> <<"r", "o", "o", "m">>,
     rename |-> NoRename,
     ty |-> TOption(TString)],
    \* owner_id: OwnerId
    [ident |-> <<"o", "w", "n", "e", "r", "_", "i", "d">>,
     rename |-> NoRename,
     ty |-> TOwnerId]
  >> \o (IF chrono THEN <<
    \* creation_time: chrono::DateTime<chrono::Utc>
    [ident |-> <<"c", "r", "e", "a", "t", "i", "o", "n", "_", "t", "i", "m",
               "e">>,
     rename |-> NoRename,
     ty |-> TDateTime],
    \* update_time: chrono::DateTime<chrono::Utc>
    [ident |-> <<"u", "p", "d", "a", "t", "e", "_", "t", "i", "m", "e">>,
     rename |-> NoRename,
     ty |-> TDateTime]
  >> ELSE <<>>) \o <<
    \* enrollment_code: String
    [ident |-> <<"e", "n", "r", "o", "l", "l", "m", "e", "n", "t", "_", "c",
               "o", "d", "e">>,
     rename |-> NoRename,
     ty |-> TString],
    \* course_state: Option<CourseState>
    [ident |-> <<"c", "o", "u", "r", "s", "e", "_", "s", "t", "a", "t", "e">>,
     rename |-> NoRename,
     ty |-> TOption(TEnum("CourseState"))],
    \* alternate_link: String
    [ident |-> <<"a", "l", "t", "e", "r", "n", "a", "t", "e", "_", "l", "i",
               "n", "k">>,
     rename |-> NoRename,
     ty |-> TString],
    \* teacher_group_email: String
    [ident |-> <<"t", "e", "a", "c", "h", "e", "r", "_", "g", "r", "o", "u",
               "p", "_", "e", "m", "a", "i", "l">>,
     rename |-> NoRename,
     ty |-> TString],
    \* course_group_email: String
    [ident |-> <<"c", "o", "u", "r", "s", "e", "_", "g", "r", "o", "u", "p",
               "_", "e", "m", "a", "i", "l">>,
     rename |-> NoRename,
     ty |-> TString],
    \* teacher_folder: Option<DriveFolder>
    [ident |-> <<"t", "e", "a", "c", "h", "e", "r", "_", "f", "o", "l", "d",
               "e", "r">>,
     rename |-> NoRename,
     ty |-> TOption(TStruct("DriveFolder"))],
    \* guardians_enabled: bool
    [ident |-> <<"g", "u", "a", "r", "d", "i", "a", "n", "s", "_", "e", "n",
               "a", "b", "l", "e", "d">>,
     rename |-> NoRename,
     ty |-> TBool],
    \* calendar_id: String
    [ident |-> <<"c", "a", "l", "e", "n", "d", "a", "r", "_", "i", "d">>,
     rename |-> NoRename,
     ty |-> TString],
    \* gradebook_settings: GradebookSettings
    [ident |-> <<"g", "r", "a", "d", "e", "b", "o", "o", "k", "_", "s", "e",
               "t", "t", "i", "n", "g", "s">>,
     rename |-> NoRename,
     ty |-> TStruct("GradebookSettings")]
  >>]

\* struct GradebookSettings (src/model/courses/mod.rs)
GradebookSettings ==
  [rename_all |-> "camelCase", fields |-> <<
    \* calculation_type: CalculationType
    [ident |-> <<"c", "a", "l", "c", "u", "l", "a", "t", "i", "o", "n", "_",
               "t", "y", "p", "e">>,
     rename |-> NoRename,
     ty |-> TEnum("CalculationType")],
    \* display_setting: DisplaySetting
    [ident |-> <<"d", "i", "s", "p", "l", "a", "y", "_", "s", "e", "t", "t",
               "i", "n", "g">>,
     rename |-> NoRename,
     ty |-> TEnum("DisplaySetting")],
    \* grade_categories: Vec<GradeCategory>
    [ident |-> <<"g", "r", "a", "d", "e", "_", "c", "a", "t", "e", "g", "o",
               "r", "i", "e", "s">>,
     rename |-> NoRename,
     ty |-> TVec(TStruct("GradeCategory"))]
  >>]

\* struct GradeCategory (src/model/mod.rs)
GradeCategory ==
  [rename_all |-> "camelCase", fields |-> <<
    \* id: String
    [ident |-> <<"i", "d">>,
     rename |-> NoRename,
     ty |-> TString],
    \* name: String
    [ident |-> <<"n", "a", "m", "e">>,
     rename |-> NoRename,
     ty |-> TString],
    \* weight: String
    [ident |-> <<"w", "e", "i", "g", "h", "t">>,
     rename |-> NoRename,
     ty |-> TString],
    \* default_grade_denominator: String
    [ident |-> <<"d", "e", "f", "a", "u", "l", "t", "_", "g", "r", "a", "d",
               "e", "_", "d", "e", "n", "o", "m", "i", "n", "a", "t", "o",
               "r">>,
     rename |-> NoRename,
     ty |-> TString]
  >>]

\* struct DriveFolder (src/model/mod.rs)
DriveFolder ==
  [rename_all |-> "camelCase", fields |-> <<
    \* id: String
    [ident |-> <<"i", "d">>,
     rename |-> NoRename,
     ty |-> TString],
    \* title: String
    [ident |-> <<"t", "i", "t", "l", "e">>,
     rename |-> NoRename,
     ty |-> TString],
    \* alternate_link: String
    [ident |-> <<"a", "l", "t", "e", "r", "n", "a", "t", "e", "_", "l", "i",
               "n", "k">>,
     rename |-> NoRename,
     ty |-> TString]
  >>]

\* struct DriveFile (src/model/mod.rs)
DriveFile ==
  [rename_all |-> "camelCase", fields |-> <<
    \* id: String
    [ident |-> <<"i", "d">>,
     rename |-> NoRename,
     ty |-> TString],
    \* title: String
    [ident |-> <<"t", "i", "t", "l", "e">>,
     rename |-> NoRename,
     ty |-> TString],
    \* alternate_link: String
    [ident |-> <<"a", "l", "t", "e", "r", "n", "a", "t", "e", "_", "l", "i",
               "n", "k">>,
     rename |-> NoRename,
     ty |-> TString],
    \* thumbnail_url: String
    [ident |-> <<"t", "h", "u", "m", "b", "n", "a", "i", "l", "_", "u", "r",
               "l">>,
     rename |-> NoRename,
     ty |-> TString]
  >>]

\* struct Form (src/model/mod.rs)
Form ==
  [rename_all |-> "camelCase", fields |-> <<
    \* form_url: String
    [ident |-> <<"f", "o", "r", "m", "_", "u", "r", "l">>,
     rename |-> NoRename,
     ty |-> TString],
    \* response_url: String
    [ident |-> <<"r", "e", "s", "p", "o", "n", "s", "e", "_", "u", "r", "l">>,
     rename |-> NoRename,
     ty |-> TString],
    \* thumbnail_url: String
    [ident |-> <<"t", "h", "u", "m", "b", "n", "a", "i", "l", "_", "u", "r",
               "l">>,
     rename |-> NoRename,
     ty |-> TString],
    \* title: String
    [ident |-> <<"t", "i", "t", "l", "e">>,
     rename |-> NoRename,
     ty |-> TString]
  >>]

\* struct Link (src/model/mod.rs)
Link ==
  [rename_all |-> "camelCase", fields |-> <<
    \* url: String
    [ident |-> <<"u", "r", "l">>,
     rename |-> NoRename,
     ty |-> TString],
    \* title: String
    [ident |-> <<"t", "i", "t", "l", "e">>,
     rename |-> NoRename,
     ty |-> TString],
    \* thumbnail_url: String
    [ident |-> <<"t", "h", "u", "m", "b", "n", "a", "i", "l", "_", "u", "r",
               "l">>,
     rename |-> NoRename,
     ty |-> TString]
  >>]

\* struct YouTubeVideo (src/model/mod.rs)
YouTubeVideo ==
  [rename_all |-> "camelCase", fields |-> <<
    \* id: String
    [ident |-> <<"i", "d">>,
     rename |-> NoRename,
     ty |-> TString],
    \* title: String
    [ident |-> <<"t", "i", "t", "l", "e">>,
     rename |-> NoRename,
     ty |-> TString],
    \* alternate_link: String
    [ident |-> <<"a", "l", "t", "e", "r", "n", "a", "t", "e", "_", "l", "i",
               "n", "k">>,
     rename |-> NoRename,
     ty |-> TString],
    \* thumbnail_url: String
    [ident |-> <<"t", "h", "u", "m", "b", "n", "a", "i", "l", "_", "u", "r",
               "l">>,
     rename |-> NoRename,
     ty |-> TString]
  >>]

\* struct DriveFile (src/model.rs)
DriveFile_model_rs ==
  [rename_all |-> "none", fields |-> <<
    \* id: String
    [ident |-> <<"i", "d">>,
     rename |-> NoRename,
     ty |-> TString],
    \* title: String
    [ident |-> <<"t", "i", "t", "l", "e">>,
     rename |-> NoRename,
     ty |-> TString],
    \* #[serde(rename = "alternateLink")] link: String
    [ident |-> <<"l", "i", "n", "k">>,
     rename |-> Renamed(<<"a", "l", "t", "e", "r", "n", "a", "t", "e", "L",
                "i", "n", "k">>),
     ty |-> TString],
    \* #[serde(rename = "thumbnailUrl")] thumbnail_url: String
    [ident |-> <<"t", "h", "u", "m", "b", "n", "a", "i", "l", "_", "u", "r",
               "l">>,
     rename |-> Renamed(<<"t", "h", "u", "m", "b", "n", "a", "i", "l", "U",
                "r", "l">>),
     ty |-> TString]
  >>]

\* struct Form (src/model.rs)
Form_model_rs ==
  [rename_all |-> "none", fields |-> <<
    \* #[serde(rename = "formUrl")] form_url: String
    [ident |-> <<"f", "o", "r", "m", "_", "u", "r", "l">>,
     rename |-> Renamed(<<"f", "o", "r", "m", "U", "r", "l">>),
     ty |-> TString],
    \* #[serde(rename = "responseUrl")] response_url: String
    [ident |-> <<"r", "e", "s", "p", "o", "n", "s", "e", "_", "u", "r", "l">>,
     rename |-> Renamed(<<"r", "e", "s", "p", "o", "n", "s", "e", "U", "r",
                "l">>),
     ty |-> TString],
    \* #[serde(rename = "thumbnailUrl")] thumbnail_url: String
    [ident |-> <<"t", "h", "u", "m", "b", "n", "a", "i", "l", "_", "u", "r",
               "l">>,
     rename |-> Renamed(<<"t", "h", "u", "m", "b", "n", "a", "i", "l", "U",
                "r", "l">>),
     ty |-> TString],
    \* title: String
    [ident |-> <<"t", "i", "t", "l", "e">>,
     rename |-> NoRename,
     ty |-> TString]
  >>]

\* struct Link (src/model.rs)
Link_model_rs ==
  [rename_all |-> "none", fields |-> <<
    \* url: String
    [ident |-> <<"u", "r", "l">>,
     rename |-> NoRename,
     ty |-> TString],
    \* title: String
    [ident |-> <<"t", "i", "t", "l", "e">>,
     rename |-> NoRename,
     ty |-> TString],
    \* #[serde(rename = "thumbnailUrl")] thumbnail_url: String
    [ident |-> <<"t", "h", "u", "m", "b", "n", "a", "i", "l", "_", "u", "r",
               "l">>,
     rename |-> Renamed(<<"t", "h", "u", "m", "b", "n", "a", "i", "l", "U",
                "r", "l">>),
     ty |-> TString]
  >>]

\* struct YouTubeVideo (src/model.rs)
YouTubeVideo_model_rs ==
  [rename_all |-> "none", fields |-> <<
    \* id: String
    [ident |-> <<"i", "d">>,
     rename |-> NoRename,
     ty |-> TString],
    \* title: String
    [ident |-> <<"t", "i", "t", "l", "e">>,
     rename |-> NoRename,
     ty |-> TString],
    \* #[serde(rename = "alternateLink")] link: String
    [ident |-> <<"l", "i", "n", "k">>,
     rename |-> Renamed(<<"a", "l", "t", "e", "r", "n", "a", "t", "e", "L",
                "i", "n", "k">>),
     ty |-> TString],
    \* #[serde(rename = "thumbnailUrl")] thumbnail_url: String
    [ident |-> <<"t", "h", "u", "m", "b", "n", "a", "i", "l", "_", "u", "r",
               "l">>,
     rename |-> Renamed(<<"t", "h", "u", "m", "b", "n", "a", "i", "l", "U",
                "r", "l">>),
     ty |-> TString]
  >>]

\* Material without its rename_all attribute
Material_no_rename_all ==
  [rename_all |-> "none", variants |-> <<
    \* DriveFile(DriveFile)
    [ident |-> <<"D", "r", "i", "v", "e", "F", "i", "l", "e">>,
     rename |-> NoRename,
     ty |-> TStruct("DriveFile")],
    \* YoutubeVideo(YouTubeVideo)
    [ident |-> <<"Y", "o", "u", "t", "u", "b", "e", "V", "i", "d", "e", "o">>,
     rename |-> NoRename,
     ty |-> TStruct("YouTubeVideo")],
    \* Link(Link)
    [ident |-> <<"L", "i", "n", "k">>,
     rename |-> NoRename,
     ty |-> TStruct("Link")],
    \* Form(Form)
    [ident |-> <<"F", "o", "r", "m">>,
     rename |-> NoRename,
     ty |-> TStruct("Form")]
  >>]

\* enum Material (src/model/mod.rs)
Material ==
  [rename_all |-> "camelCase", variants |-> <<
    \* DriveFile(DriveFile)
    [ident |-> <<"D", "r", "i", "v", "e", "F", "i", "l", "e">>,
     rename |-> NoRename,
     ty |-> TStruct("DriveFile")],
    \* YoutubeVideo(YouTubeVideo)
    [ident |-> <<"Y", "o", "u", "t", "u", "b", "e", "V", "i", "d", "e", "o">>,
     rename |-> NoRename,
     ty |-> TStruct("YouTubeVideo")],
    \* Link(Link)
    [ident |-> <<"L", "i", "n", "k">>,
     rename |-> NoRename,
     ty |-> TStruct("Link")],
    \* Form(Form)
    [ident |-> <<"F", "o", "r", "m">>,
     rename |-> NoRename,
     ty |-> TStruct("Form")]
  >>]

\* enum Material (src/model.rs)
Material_model_rs ==
  [rename_all |-> "none", variants |-> <<
    \* #[serde(rename = "driveFile")] DriveFile(DriveFile)
    [ident |-> <<"D", "r", "i", "v", "e", "F", "i", "l", "e">>,
     rename |-> Renamed(<<"d", "r", "i", "v", "e", "F", "i", "l", "e">>),
     ty |-> TStruct("DriveFile@model.rs")],
    \* #[serde(rename = "youtubeVideo")] YouTubeVideo(YouTubeVideo)
    [ident |-> <<"Y", "o", "u", "T", "u", "b", "e", "V", "i", "d", "e", "o">>,
     rename |-> Renamed(<<"y", "o", "u", "t", "u", "b", "e", "V", "i", "d",
                "e", "o">>),
     ty |-> TStruct("YouTubeVideo@model.rs")],
    \* #[serde(rename = "link")] Link(Link)
    [ident |-> <<"L", "i", "n", "k">>,
     rename |-> Renamed(<<"l", "i", "n", "k">>),
     ty |-> TStruct("Link@model.rs")],
    \* #[serde(rename = "form")] Form(Form)
    [ident |-> <<"F", "o", "r", "m">>,
     rename |-> Renamed(<<"f", "o", "r", "m">>),
     ty |-> TStruct("Form@model.rs")]
  >>]

StructDecl(name) ==
    CASE name = "CourseCreate" -> CourseCreate
      [] name = "CourseModify" -> CourseModify
      [] name = "Course" -> Course(FALSE)
      [] name = "Course+chrono" -> Course(TRUE)
      [] name = "GradebookSettings" -> GradebookSettings
      [] name = "GradeCategory" -> GradeCategory
      [] name = "DriveFolder" -> DriveFolder
      [] name = "DriveFile" -> DriveFile
      [] name = "Form" -> Form
      [] name = "Link" -> Link
      [] name = "YouTubeVideo" -> YouTubeVideo
      [] name = "DriveFile@model.rs" -> DriveFile_model_rs
      [] name = "Form@model.rs" -> Form_model_rs
      [] name = "Link@model.rs" -> Link_model_rs
      [] name = "YouTubeVideo@model.rs" -> YouTubeVideo_model_rs

MaterialDecl(name) ==
    CASE name = "Material" -> Material
      [] name = "Material@model.rs" -> Material_model_rs

StructNames ==
    {"CourseCreate", "CourseModify", "Course", "Course+chrono",
     "GradebookSettings", "GradeCategory", "DriveFolder", "DriveFile", "Form",
     "Link", "YouTubeVideo", "DriveFile@model.rs", "Form@model.rs",
     "Link@model.rs", "YouTubeVideo@model.rs"}

\* the wire names of the fields of every struct, in declaration order; the
\* derive fixes them when the crate is compiled
FieldNames ==
    [name \in StructNames |->
        [i \in 1..Len(StructDecl(name).fields) |-> field_name(StructDecl(name), i)]]

\* a timestamp text chrono accepts (RFC 3339); the only one the payloads use
Timestamp ==
    <<"1", "9", "7", "0", "-", "0", "1", "-", "0", "1", "T",
      "0", "0", ":", "0", "0", ":", "0", "0", "Z">>

\* derived Serialize: a struct writes every declared field under its wire
\* name, in declaration order, whatever the field holds; no field carries
\* skip_serializing_if, so an Option that is None is written as null
RECURSIVE Serialize(_, _)
Serialize(ty, v) ==
    CASE ty.k = "String" -> JStr(v)
      [] ty.k = "bool" -> JBoolean(v)
      [] ty.k = "DateTime" -> JStr(v)
      [] ty.k = "OwnerId" -> OwnerIdSerialize(v).val
      [] ty.k = "enum" -> EnumSerialize(ty.name, v).val
      [] ty.k = "Option" -> IF v.some THEN Serialize(ty.of, v.v) ELSE JNull
      [] ty.k = "Vec" -> JArr([i \in 1..Len(v) |-> Serialize(ty.of, v[i])])
      [] ty.k = "struct" ->
            LET decl == StructDecl(ty.name)
                names == FieldNames[ty.name]
                n == Len(decl.fields)
            IN  JObj([key \in {names[i] : i \in 1..n} |->
                        LET i == CHOOSE i \in 1..n : names[i] = key
                        IN  Serialize(decl.fields[i].ty, v[i])])

\* missing_field with a slip: a default in place of the error, as under
\* #[serde(default)]
missing_field_default(ty) ==
    IF ty.k = "Option" THEN Ok(None) ELSE Ok(<<>>)

\* what derived Deserialize gives a field whose key the payload lacks: an
\* Option field is None, any other field is a missing-field error
missing_field(ty) ==
    IF ty.k = "Option" THEN Ok(None) ELSE Err("missing_field")

\* derived Deserialize.  A struct is read from an object: each declared
\* field from the value under its wire name, keys that name no field are
\* skipped, and the first failure is the result.
RECURSIVE Deserialize(_, _, _)
Deserialize(ty, j, owned) ==
    CASE ty.k = "String" -> IF j.t = "str" THEN Ok(j.s) ELSE Err("invalid_type")
      [] ty.k = "bool" -> IF j.t = "bool" THEN Ok(j.b) ELSE Err("invalid_type")
      [] ty.k = "DateTime" ->
            IF j.t # "str" THEN Err("invalid_type")
            ELSE IF j.s = Timestamp THEN Ok(j.s)
            ELSE Err("invalid_value")
      [] ty.k = "OwnerId" -> OwnerIdDeserialize(j, owned)
      [] ty.k = "enum" -> EnumDeserialize(ty.name, j)
      [] ty.k = "Option" ->
            IF j.t = "null" THEN Ok(None)
            ELSE LET r == Deserialize(ty.of, j, owned)
                 IN  IF r.ok THEN Ok(Some(r.val)) ELSE r
      [] ty.k = "Vec" ->
            IF j.t # "arr" THEN Err("invalid_type")
            ELSE LET rs == [i \in 1..Len(j.a) |-> Deserialize(ty.of, j.a[i], owned)]
                 IN  IF \A i \in 1..Len(j.a) : rs[i].ok
                     THEN Ok([i \in 1..Len(j.a) |-> rs[i].val])
                     ELSE rs[CHOOSE i \in 1..Len(j.a) :
                                ~rs[i].ok /\ \A h \in 1..(i - 1) : rs[h].ok]
      [] ty.k = "struct" ->
            IF j.t # "obj" THEN Err("invalid_type")
            ELSE LET decl == StructDecl(ty.name)
                     names == FieldNames[ty.name]
                     n == Len(decl.fields)
                     rs == [i \in 1..n |->
                              IF names[i] \in DOMAIN j.m
                              THEN Deserialize(decl.fields[i].ty, j.m[names[i]], owned)
                              ELSE missing_field(decl.fields[i].ty)]
                 IN  IF \A i \in 1..n : rs[i].ok
                     THEN Ok([i \in 1..n |-> rs[i].val])
                     ELSE rs[CHOOSE i \in 1..n :
                                ~rs[i].ok /\ \A h \in 1..(i - 1) : rs[h].ok]

\* derived Deserialize of Material, an externally tagged enum of newtype
\* variants: an object with one key, the wire name of a variant, over the
\* payload of that variant
MaterialDeserialize(decl, j, owned) ==
    LET known(key) == \E i \in 1..Len(decl.variants) : variant_name(decl, i) = key
    IN  IF j.t = "str"
        THEN IF known(j.s) THEN Err("invalid_type") ELSE Err("unknown_variant")
        ELSE IF j.t # "obj" THEN Err("invalid_type")
        ELSE IF Cardinality(DOMAIN j.m) # 1 THEN Err("invalid_value")
        ELSE LET key == CHOOSE key \in DOMAIN j.m : TRUE
             IN  IF ~known(key) THEN Err("unknown_variant")
                 ELSE LET i == CHOOSE i \in 1..Len(decl.variants) :
                                   variant_name(decl, i) = key
                          r == Deserialize(decl.variants[i].ty, j.m[key], owned)
                      IN  IF r.ok
                          THEN Ok([variant |-> decl.variants[i].ident, v |-> r.val])
                          ELSE r

\* wire keys of the JSON payloads, as the remote service spells them
K_id == <<"i", "d">>

K_name == <<"n", "a", "m", "e">>

K_section == <<"s", "e", "c", "t", "i", "o", "n">>

K_descriptionHeading == <<"d", "e", "s", "c", "r", "i", "p", "t", "i", "o", "n", "H", "e", "a",
    "d", "i", "n", "g">>

K_description == <<"d", "e", "s", "c", "r", "i", "p", "t", "i", "o", "n">>

K_room == <<"r", "o", "o", "m">>

K_ownerId == <<"o", "w", "n", "e", "r", "I", "d">>

K_creationTime == <<"c", "r", "e", "a", "t", "i", "o", "n", "T", "i", "m", "e">>

K_updateTime == <<"u", "p", "d", "a", "t", "e", "T", "i", "m", "e">>

K_enrollmentCode == <<"e", "n", "r", "o", "l", "l", "m", "e", "n", "t", "C", "o", "d", "e">>

K_courseState == <<"c", "o", "u", "r", "s", "e", "S", "t", "a", "t", "e">>

K_alternateLink == <<"a", "l", "t", "e", "r", "n", "a", "t", "e", "L", "i", "n", "k">>

K_teacherGroupEmail == <<"t", "e", "a", "c", "h", "e", "r", "G", "r", "o", "u", "p", "E", "m",
    "a", "i", "l">>

K_courseGroupEmail == <<"c", "o", "u", "r", "s", "e", "G", "r", "o", "u", "p", "E", "m", "a",
    "i", "l">>

K_teacherFolder == <<"t", "e", "a", "c", "h", "e", "r", "F", "o", "l", "d", "e", "r">>

K_guardiansEnabled == <<"g", "u", "a", "r", "d", "i", "a", "n", "s", "E", "n", "a", "b", "l",
    "e", "d">>

K_calendarId == <<"c", "a", "l", "e", "n", "d", "a", "r", "I", "d">>

K_gradebookSettings == <<"g", "r", "a", "d", "e", "b", "o", "o", "k", "S", "e", "t", "t", "i",
    "n", "g", "s">>

K_calculationType == <<"c", "a", "l", "c", "u", "l", "a", "t", "i", "o", "n", "T", "y", "p",
    "e">>

K_displaySetting == <<"d", "i", "s", "p", "l", "a", "y", "S", "e", "t", "t", "i", "n", "g">>

K_gradeCategories == <<"g", "r", "a", "d", "e", "C", "a", "t", "e", "g", "o", "r", "i", "e",
    "s">>

K_weight == <<"w", "e", "i", "g", "h", "t">>

K_defaultGradeDenominator == <<"d", "e", "f", "a", "u", "l", "t", "G", "r", "a", "d", "e", "D", "e",
    "n", "o", "m", "i", "n", "a", "t", "o", "r">>

K_title == <<"t", "i", "t", "l", "e">>

K_thumbnailUrl == <<"t", "h", "u", "m", "b", "n", "a", "i", "l", "U", "r", "l">>

K_url == <<"u", "r", "l">>

K_formUrl == <<"f", "o", "r", "m", "U", "r", "l">>

K_responseUrl == <<"r", "e", "s", "p", "o", "n", "s", "e", "U", "r", "l">>

K_driveFile == <<"d", "r", "i", "v", "e", "F", "i", "l", "e">>

K_youtubeVideo == <<"y", "o", "u", "t", "u", "b", "e", "V", "i", "d", "e", "o">>

K_link == <<"l", "i", "n", "k">>

K_form == <<"f", "o", "r", "m">>

(***************************************************************************)
(* Payloads and values the operations are applied to                       *)
(***************************************************************************)
StrV == <<"v">>

\* a well-formed value for a wire key, as the remote service sends it
RECURSIVE ValidValue(_)
ValidValue(key) ==
    CASE key = K_ownerId -> JStr(<<"m", "e">>)
      [] key = K_courseState -> JStr(<<"A", "R", "C", "H", "I", "V", "E", "D">>)
      [] key = K_guardiansEnabled -> JBoolean(TRUE)
      [] key \in {K_creationTime, K_updateTime} -> JStr(Timestamp)
      [] key = K_teacherFolder ->
            JObj([k \in {K_id, K_title, K_alternateLink} |-> ValidValue(k)])
      [] key = K_gradebookSettings ->
            JObj([k \in {K_calculationType, K_displaySetting, K_gradeCategories}
                    |-> ValidValue(k)])
      [] key = K_calculationType ->
            JStr(<<"T", "O", "T", "A", "L", "_", "P", "O", "I", "N", "T", "S">>)
      [] key = K_displaySetting ->
            JStr(<<"S", "H", "O", "W", "_", "O", "V", "E", "R", "A", "L", "L",
                   "_", "G", "R", "A", "D", "E">>)
      [] key = K_gradeCategories ->
            JArr(<<JObj([k \in {K_id, K_name, K_weight, K_defaultGradeDenominator}
                           |-> ValidValue(k)])>>)
      [] OTHER -> JStr(StrV)

\* the object that holds, for every key not chosen absent, null or the
\* key's well-formed value
Payload(choice) ==
    JObj([k \in {k \in DOMAIN choice : choice[k] # "absent"} |->
            IF choice[k] = "null" THEN JNull ELSE ValidValue(k)])

CourseCreateKeys ==
    {K_id, K_name, K_section, K_descriptionHeading, K_description, K_room,
     K_ownerId, K_courseState}

CourseModifyKeys ==
    {K_name, K_section, K_descriptionHeading, K_description, K_room,
     K_ownerId, K_courseState}

\* keys a Course may come without, and keys every Course carries
CourseOptionalKeys ==
    {K_section, K_descriptionHeading, K_description, K_room, K_courseState,
     K_teacherFolder}

CourseAlwaysKeys ==
    {K_id, K_name, K_ownerId, K_creationTime, K_updateTime, K_enrollmentCode,
     K_alternateLink, K_teacherGroupEmail, K_courseGroupEmail,
     K_guardiansEnabled, K_calendarId, K_gradebookSettings}

\* a Course payload without the optional keys in absent and the other
\* keys in missing
CoursePayload(absent, missing) ==
    Payload([k \in CourseOptionalKeys \cup CourseAlwaysKeys |->
                IF k \in absent \cup missing THEN "absent" ELSE "valid"])

\* keys of the payloads of the Material variants, and "link", the name the
\* structs of src/model.rs give the alternateLink field
MaterialInnerKeys ==
    {K_id, K_title, K_alternateLink, K_thumbnailUrl, K_url, K_formUrl,
     K_responseUrl, K_link}

\* discriminator keys offered to the Material decoders
MaterialOuterKeys ==
    {K_driveFile, K_youtubeVideo, K_link, K_form,
     <<"y", "o", "u", "T", "u", "b", "e", "V", "i", "d", "e", "o">>,
     <<"D", "r", "i", "v", "e", "F", "i", "l", "e">>,
     <<"d", "r", "i", "v", "e", "_", "f", "i", "l", "e">>,
     <<"v", "i", "d", "e", "o">>}

\* a Material payload: one discriminator key over an object with the keys
\* in present
MaterialPayload(outer, present) ==
    JObj([k \in {outer} |-> JObj([h \in present |-> JStr(StrV)])])

\* payloads that are not an object with one key
OtherMaterialPayloads ==
    {JObj([k \in {K_link, K_form} |-> JObj([h \in MaterialInnerKeys |-> JStr(StrV)])]),
     JObj([k \in {} |-> JNull]),
     JStr(K_link), JStr(<<"v", "i", "d", "e", "o">>), JNull}

\* values of a field type: one text, three owner identifiers, every variant
\* of an enum, and an Option unset or set to each of these
RECURSIVE ValuesOf(_)
ValuesOf(ty) ==
    CASE ty.k = "String" -> {StrV}
      [] ty.k = "OwnerId" -> {Me, Id(<<"7">>), Email(<<"@">>)}
      [] ty.k = "enum" ->
            {EnumDecl(ty.name).variants[i].ident :
                i \in 1..Len(EnumDecl(ty.name).variants)}
      [] ty.k = "Option" -> {None} \cup {Some(x) : x \in ValuesOf(ty.of)}

\* values of a struct, as the sequence of its fields' values
RECURSIVE StructValues(_, _)
StructValues(decl, n) ==
    IF n = 0 THEN {<<>>}
    ELSE {Append(p, x) : p \in StructValues(decl, n - 1),
                         x \in ValuesOf(decl.fields[n].ty)}

(***************************************************************************)
(* Requests                                                                *)
(***************************************************************************)
\* Each predicate draws the request of one operation.
OwnerDecodeReq ==
    \E j \in {JStr(s) : s \in OwnerTexts} \cup {JNull, JNum, JBoolean(TRUE)},
       o \in BOOLEAN :
        req = [op |-> "owner_decode", json |-> j, owned |-> o]

OwnerEncodeReq ==
    \E v \in OwnerIds : req = [op |-> "owner_encode", value |-> v]

OwnerTextTripReq ==
    \E s \in OwnerTexts, o \in BOOLEAN :
        req = [op |-> "owner_text_trip", text |-> s, owned |-> o]

OwnerValueTripReq ==
    \E v \in OwnerIds, o \in BOOLEAN :
        req = [op |-> "owner_value_trip", value |-> v, owned |-> o]

\* one text for both entry points of the visitor
OwnerVisitReq ==
    \E s \in OwnerTexts : req = [op |-> "owner_visit", text |-> s]

\* the texts offered to the enum decoders: every wire name any declaration
\* accepts, and texts no declaration accepts
EnumTexts ==
    UNION {{VariantNames[n][i] : i \in 1..Len(EnumDecl(n).variants)} :
              n \in EnumNames}
    \cup {<<"D", "E", "L", "E", "T", "E", "D">>,
          <<"a", "r", "c", "h", "i", "v", "e", "d">>,
          <<"A", "r", "c", "h", "i", "v", "e", "d">>,
          <<"A", "R", "C", "H", "I", "V", "E">>,
          <<"S", "T", "U", "D", "E", "N", "T", "C", "O", "P", "Y">>,
          <<>>}

EnumDecodeReq ==
    \E n \in EnumNames,
       j \in {JStr(s) : s \in EnumTexts} \cup {JNull, JNum, JBoolean(TRUE)} :
        req = [op |-> "enum_decode", enum |-> n, json |-> j]

EnumEncodeReq ==
    \E n \in EnumNames :
        \E i \in 1..Len(EnumDecl(n).variants) :
            req = [op |-> "enum_encode", enum |-> n,
                   variant |-> EnumDecl(n).variants[i].ident]

StructDecodeReq ==
    \E o \in BOOLEAN :
        \/ \E c \in [CourseCreateKeys -> {"absent", "valid"}] :
              req = [op |-> "struct_decode", struct |-> "CourseCreate",
                     json |-> Payload(c), owned |-> o]
        \/ \E c \in [CourseModifyKeys -> {"absent", "null", "valid"}] :
              req = [op |-> "struct_decode", struct |-> "CourseModify",
                     json |-> Payload(c), owned |-> o]
        \/ \E n \in {"Course", "Course+chrono"},
              absent \in SUBSET CourseOptionalKeys,
              missing \in {m \in SUBSET CourseAlwaysKeys :
                              Cardinality(m) <= MaxMissing} :
              req = [op |-> "struct_decode", struct |-> n,
                     json |-> CoursePayload(absent, missing), owned |-> o]
        \/ \E n \in {"CourseCreate", "CourseModify", "Course", "Course+chrono"},
              j \in {JNull, JStr(StrV)} :
              req = [op |-> "struct_decode", struct |-> n, json |-> j, owned |-> o]

StructEncodeReq ==
    \/ \E v \in StructValues(CourseCreate, Len(CourseCreate.fields)) :
          req = [op |-> "struct_encode", struct |-> "CourseCreate", value |-> v]
    \/ \E v \in StructValues(CourseModify, Len(CourseModify.fields)) :
          req = [op |-> "struct_encode", struct |-> "CourseModify", value |-> v]

MaterialDecodeReq ==
    \E d \in {"Material", "Material@model.rs"} :
        \/ \E outer \in MaterialOuterKeys, present \in SUBSET MaterialInnerKeys :
              req = [op |-> "material_decode", decl |-> d, owned |-> FALSE,
                     json |-> MaterialPayload(outer, present)]
        \/ \E j \in OtherMaterialPayloads :
              req = [op |-> "material_decode", decl |-> d, owned |-> FALSE,
                     json |-> j]

NoResult == [ok |-> FALSE, err |-> "none"]

Init ==
    /\ pc = "ready"
    /\ res = NoResult
    /\ \/ OwnerDecodeReq
       \/ OwnerEncodeReq
       \/ OwnerTextTripReq
       \/ OwnerValueTripReq
       \/ OwnerVisitReq
       \/ EnumDecodeReq
       \/ EnumEncodeReq
       \/ StructDecodeReq
       \/ StructEncodeReq
       \/ MaterialDecodeReq

(***************************************************************************)
(* Operations                                                              *)
(***************************************************************************)
\* from_str::<OwnerId>(json)
DecodeOwnerId ==
    /\ pc = "ready"
    /\ req.op = "owner_decode"
    /\ res' = OwnerIdDeserialize(req.json, req.owned)
    /\ pc' = "done"
    /\ UNCHANGED req

\* to_string(&owner_id)
EncodeOwnerId ==
    /\ pc = "ready"
    /\ req.op = "owner_encode"
    /\ res' = OwnerIdSerialize(req.value)
    /\ pc' = "done"
    /\ UNCHANGED req

\* to_string(&from_str::<OwnerId>(text)?)
OwnerTextRoundTrip ==
    /\ pc = "ready"
    /\ req.op = "owner_text_trip"
    /\ LET d == OwnerIdDeserialize(JStr(req.text), req.owned)
       IN  res' = IF d.ok THEN OwnerIdSerialize(d.val) ELSE d
    /\ pc' = "done"
    /\ UNCHANGED req

\* from_str::<OwnerId>(&to_string(&value)?)
OwnerValueRoundTrip ==
    /\ pc = "ready"
    /\ req.op = "owner_value_trip"
    /\ LET e == OwnerIdSerialize(req.value)
       IN  res' = IF e.ok THEN OwnerIdDeserialize(e.val, req.owned) ELSE e
    /\ pc' = "done"
    /\ UNCHANGED req

\* OwnerIdVisitor.visit_str(&text) and OwnerIdVisitor.visit_string(text): the
\* same text handed over borrowed and owned
VisitBoth ==
    /\ pc = "ready"
    /\ req.op = "owner_visit"
    /\ res' = [borrowed |-> visit_str(req.text), owned |-> visit_string(req.text)]
    /\ pc' = "done"
    /\ UNCHANGED req

\* from_str of one of the closed enums
DecodeEnum ==
    /\ pc = "ready"
    /\ req.op = "enum_decode"
    /\ res' = EnumDeserialize(req.enum, req.json)
    /\ pc' = "done"
    /\ UNCHANGED req

\* to_string of a variant of one of the closed enums
EncodeEnum ==
    /\ pc = "ready"
    /\ req.op = "enum_encode"
    /\ res' = EnumSerialize(req.enum, req.variant)
    /\ pc' = "done"
    /\ UNCHANGED req

\* from_str::<CourseCreate | CourseModify | Course>(json)
DecodeStruct ==
    /\ pc = "ready"
    /\ req.op = "struct_decode"
    /\ res' = Deserialize(TStruct(req.struct), req.json, req.owned)
    /\ pc' = "done"
    /\ UNCHANGED req

\* to_value(&course_create | &course_modify)
EncodeStruct ==
    /\ pc = "ready"
    /\ req.op = "struct_encode"
    /\ res' = Ok(Serialize(TStruct(req.struct), req.value))
    /\ pc' = "done"
    /\ UNCHANGED req

\* from_str::<Material>(json)
DecodeMaterial ==
    /\ pc = "ready"
    /\ req.op = "material_decode"
    /\ res' = MaterialDeserialize(MaterialDecl(req.decl), req.json, req.owned)
    /\ pc' = "done"
    /\ UNCHANGED req

Next ==
    \/ DecodeOwnerId
    \/ EncodeOwnerId
    \/ OwnerTextRoundTrip
    \/ OwnerValueRoundTrip
    \/ VisitBoth
    \/ DecodeEnum
    \/ EncodeEnum
    \/ DecodeStruct
    \/ EncodeStruct
    \/ DecodeMaterial

Spec == Init /\ [][Next]_vars

(***************************************************************************)
(* Claims about the owner identifier                                       *)
(***************************************************************************)
Done(op) == pc = "done" /\ req.op = op

DecodedText == Done("owner_decode") /\ req.json.t = "str"

\* C1: decoding a non-empty text x yields Me when x is exactly "me", Id(x)
\* when every character of x is an ASCII digit, and Email(x) otherwise; the
\* match on "me" is case-sensitive and on the whole text.
C1_DecodeVariants ==
    (DecodedText /\ Len(req.json.s) > 0) =>
        LET x == req.json.s
        IN  /\ x = <<"m", "e">> => res = Ok(Me)
            /\ (x # <<"m", "e">> /\ \A i \in 1..Len(x) : is_ascii_digit(x[i]))
                   => res = Ok(Id(x))
            /\ (x # <<"m", "e">> /\ \E i \in 1..Len(x) : ~is_ascii_digit(x[i]))
                   => res = Ok(Email(x))
            /\ x \in {<<"M", "E">>, <<"m", "e", "@">>, <<"m">>, <<"e", "m">>}
                   => res = Ok(Email(x))

C1_Witness ==
    /\ DecodedText
    /\ req.json.s = <<"m", "e", "@">>
    /\ res = Ok(Email(<<"m", "e", "@">>))

\* C2: the empty text decodes to Email(""), never to Id("").
C2_EmptyIsEmail ==
    (DecodedText /\ req.json.s = <<>>) => res = Ok(Email(<<>>))

\* C3: text round trip: encoding the value decoded from a text x gives
\* back exactly x.
C3_TextRoundTrip ==
    Done("owner_text_trip") => res = Ok(JStr(req.text))

C3_Witness ==
    /\ Done("owner_text_trip")
    /\ req.text = <<"m", "e">>
    /\ res = Ok(JStr(<<"m", "e">>))

\* C4 as stated: decode(encode(v)) = v for every v of the Id variant and for
\* every Email(s) whose s is not "me" and not all-digit.
C4_ValueRoundTripAsStated ==
    (/\ Done("owner_value_trip")
     /\ \/ req.value.tag = "Id"
        \/ /\ req.value.tag = "Email"
           /\ req.value.s # <<"m", "e">>
           /\ ~all_ascii_digit(req.value.s))
        => res = Ok(req.value)

\* C4 amended: decode(encode(v)) = v holds for Id(s) only when every
\* character of s is an ASCII digit, and for Email(s) when s is not "me" and
\* has a character that is not an ASCII digit; Email("me") comes back as Me,
\* Email of an all-digit text as Id, and Id of any other text as Me or Email.
C4_ValueRoundTrip ==
    Done("owner_value_trip") =>
        LET v == req.value
        IN  /\ (v.tag = "Id" /\ \A i \in 1..Len(v.s) : is_ascii_digit(v.s[i]))
                   => res = Ok(v)
            /\ (/\ v.tag = "Email"
                /\ v.s # <<"m", "e">>
                /\ \E i \in 1..Len(v.s) : ~is_ascii_digit(v.s[i]))
                   => res = Ok(v)
            /\ v = Email(<<"m", "e">>) => res = Ok(Me)
            /\ (v.tag = "Email" /\ \A i \in 1..Len(v.s) : is_ascii_digit(v.s[i]))
                   => res = Ok(Id(v.s))
            /\ (v.tag = "Id" /\ \E i \in 1..Len(v.s) : ~is_ascii_digit(v.s[i]))
                   => res = (IF v.s = <<"m", "e">> THEN Ok(Me) ELSE Ok(Email(v.s)))

C4_Witness ==
    /\ Done("owner_value_trip")
    /\ req.value = Id(<<"0", "7">>)
    /\ res = Ok(Id(<<"0", "7">>))

\* C5: decoding is total over text: every string input, the empty one and
\* those with non-ASCII characters or Unicode digits included, yields a
\* value and never a decode error.
C5_DecodeTotal == DecodedText => res.ok

C5_Witness ==
    /\ DecodedText
    /\ \E i \in 1..Len(req.json.s) : req.json.s[i] = "U+0663"
    /\ res.ok

\* documented CourseState values
Doc_CourseState ==
  <<
    \* COURSE_STATE_UNSPECIFIED
    <<"C", "O", "U", "R", "S", "E", "_", "S", "T", "A", "T", "E", "_", "U",
    "N", "S", "P", "E", "C", "I", "F", "I", "E", "D">>,
    \* ACTIVE
    <<"A", "C", "T", "I", "V", "E">>,
    \* ARCHIVED
    <<"A", "R", "C", "H", "I", "V", "E", "D">>,
    \* PROVISIONED
    <<"P", "R", "O", "V", "I", "S", "I", "O", "N", "E", "D">>,
    \* DECLINED
    <<"D", "E", "C", "L", "I", "N", "E", "D">>,
    \* SUSPENDED
    <<"S", "U", "S", "P", "E", "N", "D", "E", "D">>
  >>

\* documented CalculationType values
Doc_CalculationType ==
  <<
    \* CALCULATION_TYPE_UNSPECIFIED
    <<"C", "A", "L", "C", "U", "L", "A", "T", "I", "O", "N", "_", "T", "Y",
    "P", "E", "_", "U", "N", "S", "P", "E", "C", "I", "F", "I", "E", "D">>,
    \* TOTAL_POINTS
    <<"T", "O", "T", "A", "L", "_", "P", "O", "I", "N", "T", "S">>,
    \* WEIGHTED_CATEGORIES
    <<"W", "E", "I", "G", "H", "T", "E", "D", "_", "C", "A", "T", "E", "G",
    "O", "R", "I", "E", "S">>
  >>

\* documented DisplaySetting values
Doc_DisplaySetting ==
  <<
    \* DISPLAY_SETTING_UNSPECIFIED
    <<"D", "I", "S", "P", "L", "A", "Y", "_", "S", "E", "T", "T", "I", "N",
    "G", "_", "U", "N", "S", "P", "E", "C", "I", "F", "I", "E", "D">>,
    \* SHOW_OVERALL_GRADE
    <<"S", "H", "O", "W", "_", "O", "V", "E", "R", "A", "L", "L", "_", "G",
    "R", "A", "D", "E">>,
    \* HIDE_OVERALL_GRADE
    <<"H", "I", "D", "E", "_", "O", "V", "E", "R", "A", "L", "L", "_", "G",
    "R", "A", "D", "E">>,
    \* SHOW_TEACHERS_ONLY
    <<"S", "H", "O", "W", "_", "T", "E", "A", "C", "H", "E", "R", "S", "_",
    "O", "N", "L", "Y">>
  >>

\* documented AssigneeMode values
Doc_AssigneeMode ==
  <<
    \* ASSIGNEE_MODE_UNSPECIFIED
    <<"A", "S", "S", "I", "G", "N", "E", "E", "_", "M", "O", "D", "E", "_",
    "U", "N", "S", "P", "E", "C", "I", "F", "I", "E", "D">>,
    \* ALL_STUDENTS
    <<"A", "L", "L", "_", "S", "T", "U", "D", "E", "N", "T", "S">>,
    \* INDIVIDUAL_STUDENTS
    <<"I", "N", "D", "I", "V", "I", "D", "U", "A", "L", "_", "S", "T", "U",
    "D", "E", "N", "T", "S">>
  >>

\* documented CourseWorkType values
Doc_CourseWorkType ==
  <<
    \* COURSE_WORK_TYPE_UNSPECIFIED
    <<"C", "O", "U", "R", "S", "E", "_", "W", "O", "R", "K", "_", "T", "Y",
    "P", "E", "_", "U", "N", "S", "P", "E", "C", "I", "F", "I", "E", "D">>,
    \* ASSIGNMENT
    <<"A", "S", "S", "I", "G", "N", "M", "E", "N", "T">>,
    \* SHORT_ANSWER_QUESTION
    <<"S", "H", "O", "R", "T", "_", "A", "N", "S", "W", "E", "R", "_", "Q",
    "U", "E", "S", "T", "I", "O", "N">>,
    \* MULTIPLE_CHOICE_QUESTION
    <<"M", "U", "L", "T", "I", "P", "L", "E", "_", "C", "H", "O", "I", "C",
    "E", "_", "Q", "U", "E", "S", "T", "I", "O", "N">>
  >>

\* documented DriveFileShareMode values
Doc_DriveFileShareMode ==
  <<
    \* UNKNOWN_SHARE_MODE
    <<"U", "N", "K", "N", "O", "W", "N", "_", "S", "H", "A", "R", "E", "_",
    "M", "O", "D", "E">>,
    \* VIEW
    <<"V", "I", "E", "W">>,
    \* EDIT
    <<"E", "D", "I", "T">>,
    \* STUDENT_COPY
    <<"S", "T", "U", "D", "E", "N", "T", "_", "C", "O", "P", "Y">>
  >>

\* the published values of the enum a declaration stands for, in the order
\* the declaration lists its variants
Documented(name) ==
    CASE name \in {"CourseState"} -> Doc_CourseState
      [] name \in {"CalculationType"} -> Doc_CalculationType
      [] name \in {"DisplaySetting"} -> Doc_DisplaySetting
      [] name \in {"AssigneeMode", "AssigneeMode@model.rs"} -> Doc_AssigneeMode
      [] name \in {"CourseWorkType", "CourseWorkType@model.rs"} -> Doc_CourseWorkType
      [] name \in {"DriveFileShareMode", "DriveFileShareMode@model.rs"} ->
            Doc_DriveFileShareMode

DecodedEnumText == Done("enum_decode") /\ req.json.t = "str"

\* the enum declarations of the module tree rooted at src/model/mod.rs
LiveEnums ==
    {"CourseState", "CalculationType", "DisplaySetting", "AssigneeMode",
     "CourseWorkType", "DriveFileShareMode"}

\* the closed-enum contract over a set of declarations: a documented value
\* decodes to the variant at its place, any other text is a decode error
ClosedEnumsOver(enums) ==
    (DecodedEnumText /\ req.enum \in enums) =>
        LET doc == Documented(req.enum)
            decl == EnumDecl(req.enum)
        IN  /\ \A i \in 1..Len(doc) :
                   req.json.s = doc[i] => res = Ok(decl.variants[i].ident)
            /\ (\A i \in 1..Len(doc) : req.json.s # doc[i]) => ~res.ok
            /\ (/\ req.enum = "CourseState"
                /\ req.json.s = <<"A", "R", "C", "H", "I", "V", "E", "D">>)
                   => res = Ok(<<"A", "r", "c", "h", "i", "v", "e", "d">>)

\* C7: for each closed enum, decoding one of its documented
\* SCREAMING_SNAKE_CASE values yields the matching variant ("ARCHIVED"
\* yields CourseState Archived), and decoding any other text ("DELETED") is
\* a decode error, never a default or fallback variant.
C7_ClosedEnums == ClosedEnumsOver(LiveEnums)

\* the contract holds of every declaration but AssigneeMode of
\* src/model/mod.rs, the declarations of src/model.rs included
ClosedEnumsButAssigneeMode == ClosedEnumsOver(EnumNames \ {"AssigneeMode"})

\* C8: in both declarations of AssigneeMode the wire text of the variant
\* for a subset of students is "INDIVIDUAL_STUDENTS": that text decodes to
\* IndividiualStudents and IndividiualStudents encodes to that text.
C8_IndividualStudents ==
    LET wire == <<"I", "N", "D", "I", "V", "I", "D", "U", "A", "L", "_",
                  "S", "T", "U", "D", "E", "N", "T", "S">>
        ident == <<"I", "n", "d", "i", "v", "i", "d", "i", "u", "a", "l",
                   "S", "t", "u", "d", "e", "n", "t", "s">>
    IN  /\ (/\ DecodedEnumText
            /\ req.enum \in {"AssigneeMode", "AssigneeMode@model.rs"}
            /\ req.json.s = wire) => res = Ok(ident)
        /\ (/\ Done("enum_encode")
            /\ req.enum \in {"AssigneeMode", "AssigneeMode@model.rs"}
            /\ req.variant = ident) => res = Ok(JStr(wire))

\* the wire text is "INDIVIDUAL_STUDENTS" in the declaration of src/model.rs,
\* which names it explicitly
IndividualStudents_model_rs ==
    LET wire == <<"I", "N", "D", "I", "V", "I", "D", "U", "A", "L", "_",
                  "S", "T", "U", "D", "E", "N", "T", "S">>
        ident == <<"I", "n", "d", "i", "v", "i", "d", "i", "u", "a", "l",
                   "S", "t", "u", "d", "e", "n", "t", "s">>
    IN  /\ (/\ DecodedEnumText
            /\ req.enum = "AssigneeMode@model.rs"
            /\ req.json.s = wire) => res = Ok(ident)
        /\ (/\ Done("enum_encode")
            /\ req.enum = "AssigneeMode@model.rs"
            /\ req.variant = ident) => res = Ok(JStr(wire))

(***************************************************************************)
(* Claims about the course shapes and Material                             *)
(***************************************************************************)
\* the wire keys of the fields of the course shapes, in declaration order
WireKeys(struct) ==
    CASE struct = "CourseCreate" ->
            <<K_id, K_name, K_section, K_descriptionHeading, K_description,
              K_room, K_ownerId, K_courseState>>
      [] struct = "CourseModify" ->
            <<K_name, K_section, K_descriptionHeading, K_description, K_room,
              K_ownerId, K_courseState>>
      [] struct = "Course" ->
            <<K_id, K_name, K_section, K_descriptionHeading, K_description,
              K_room, K_ownerId, K_enrollmentCode, K_courseState,
              K_alternateLink, K_teacherGroupEmail, K_courseGroupEmail,
              K_teacherFolder, K_guardiansEnabled, K_calendarId,
              K_gradebookSettings>>
      [] struct = "Course+chrono" ->
            <<K_id, K_name, K_section, K_descriptionHeading, K_description,
              K_room, K_ownerId, K_creationTime, K_updateTime,
              K_enrollmentCode, K_courseState, K_alternateLink,
              K_teacherGroupEmail, K_courseGroupEmail, K_teacherFolder,
              K_guardiansEnabled, K_calendarId, K_gradebookSettings>>

\* the keys of the fields marked optional
OptionalKeys(struct) ==
    CASE struct = "CourseCreate" ->
            {K_id, K_section, K_descriptionHeading, K_description, K_room,
             K_courseState}
      [] struct = "CourseModify" ->
            {K_name, K_section, K_descriptionHeading, K_description, K_room,
             K_ownerId, K_courseState}
      [] struct \in {"Course", "Course+chrono"} ->
            {K_section, K_descriptionHeading, K_description, K_room,
             K_courseState, K_teacherFolder}

KeysOf(struct) == {WireKeys(struct)[i] : i \in 1..Len(WireKeys(struct))}

RequiredKeys(struct) == KeysOf(struct) \ OptionalKeys(struct)

\* C6: encoding a CourseCreate or CourseModify value in which an optional
\* field is unset produces output in which that field's key is absent, never
\* present with a null value.
C6_UnsetOmitted ==
    Done("struct_encode") =>
        \A i \in 1..Len(WireKeys(req.struct)) :
            (/\ WireKeys(req.struct)[i] \in OptionalKeys(req.struct)
             /\ req.value[i] = None)
                => WireKeys(req.struct)[i] \notin DOMAIN res.val.m

\* what the code does instead: every key is written, an unset field as null
UnsetWrittenAsNull ==
    Done("struct_encode") =>
        /\ DOMAIN res.val.m = KeysOf(req.struct)
        /\ \A i \in 1..Len(WireKeys(req.struct)) :
               LET key == WireKeys(req.struct)[i]
               IN  IF key \in OptionalKeys(req.struct)
                   THEN req.value[i] = None <=> res.val.m[key] = JNull
                   ELSE res.val.m[key] # JNull

\* the variant a discriminator key stands for, and the keys of its fields
MaterialVariant(decl, key) ==
    CASE key = K_driveFile -> <<"D", "r", "i", "v", "e", "F", "i", "l", "e">>
      [] key = K_youtubeVideo ->
            IF decl = "Material"
            THEN <<"Y", "o", "u", "t", "u", "b", "e", "V", "i", "d", "e", "o">>
            ELSE <<"Y", "o", "u", "T", "u", "b", "e", "V", "i", "d", "e", "o">>
      [] key = K_link -> <<"L", "i", "n", "k">>
      [] key = K_form -> <<"F", "o", "r", "m">>

MaterialFieldKeys(key) ==
    CASE key \in {K_driveFile, K_youtubeVideo} ->
            <<K_id, K_title, K_alternateLink, K_thumbnailUrl>>
      [] key = K_link -> <<K_url, K_title, K_thumbnailUrl>>
      [] key = K_form -> <<K_formUrl, K_responseUrl, K_thumbnailUrl, K_title>>

C10_WitnessCourse ==
    /\ Done("struct_decode")
    /\ req.struct = "Course+chrono"
    /\ req.json.t = "obj"
    /\ DOMAIN req.json.m = RequiredKeys("Course+chrono")
    /\ res.ok
    /\ res.val[3] = None

\* C11: decoding a payload that lacks a required field of the target shape
\* (a Course without name, ownerId or gradebookSettings, a CourseCreate
\* without name or ownerId) is a decode error; no default stands in for the
\* missing field and no partially populated value is returned.
C11_MissingRequired ==
    (/\ Done("struct_decode")
     /\ req.json.t = "obj"
     /\ RequiredKeys(req.struct) \ DOMAIN req.json.m # {}) =>
        /\ ~res.ok
        /\ "val" \notin DOMAIN res
        /\ (/\ req.struct \in {"Course", "Course+chrono"}
            /\ {K_name, K_ownerId, K_gradebookSettings} \cap DOMAIN req.json.m
                   # {K_name, K_ownerId, K_gradebookSettings})
               => res = Err("missing_field")
        /\ (/\ req.struct = "CourseCreate"
            /\ {K_name, K_ownerId} \cap DOMAIN req.json.m # {K_name, K_ownerId})
               => res = Err("missing_field")

C11_Witness ==
    /\ Done("struct_decode")
    /\ req.struct = "Course"
    /\ req.json.t = "obj"
    /\ KeysOf("Course") \ DOMAIN req.json.m = {K_gradebookSettings}
    /\ res = Err("missing_field")

\* a CourseCreate without ownerId is refused as well
C11_WitnessCreate ==
    /\ Done("struct_decode")
    /\ req.struct = "CourseCreate"
    /\ req.json.t = "obj"
    /\ KeysOf("CourseCreate") \ DOMAIN req.json.m = {K_ownerId}
    /\ res = Err("missing_field")

\* C12: encoding an OwnerId never fails and validates nothing: Me encodes
\* to the text "me", Id(s) to s unchanged and Email(s) to s unchanged for
\* every text s, an Id constructed directly with non-digit text included.
C12_EncodeTotal ==
    Done("owner_encode") =>
        /\ res.ok
        /\ res.val.t = "str"
        /\ req.value = Me => res.val.s = <<"m", "e">>
        /\ req.value.tag \in {"Id", "Email"} => res.val.s = req.value.s

C12_Witness ==
    /\ Done("owner_encode")
    /\ req.value = Id(<<"7", "@">>)
    /\ res = Ok(JStr(<<"7", "@">>))

\* C13: every OwnerId produced by decoding satisfies the variant invariant:
\* Id(s) holds only ASCII digits and is not "me"; Email(s) is not "me" and
\* has a character that is not an ASCII digit; Me comes only from "me".
C13_DecodedInvariant ==
    (DecodedText /\ res.ok) =>
        LET v == res.val
        IN  /\ v.tag = "Id" =>
                /\ \A i \in 1..Len(v.s) : is_ascii_digit(v.s[i])
                /\ v.s # <<"m", "e">>
            /\ v.tag = "Email" =>
                /\ v.s # <<"m", "e">>
                /\ \E i \in 1..Len(v.s) : ~is_ascii_digit(v.s[i])
            /\ v.tag = "Me" => req.json.s = <<"m", "e">>

C13_Witness ==
    /\ DecodedText
    /\ req.owned
    /\ req.json.s = <<"0", "7">>
    /\ res = Ok(Id(<<"0", "7">>))

\* C14: the two decode entry points of OwnerIdVisitor agree: for every text
\* v, visit_str(v) and visit_string(v) return the same variant holding the
\* same text, whether the string is handed over borrowed or owned.
C14_EntryPointsAgree ==
    Done("owner_visit") =>
        /\ res.borrowed.ok /\ res.owned.ok
        /\ res.borrowed.val.tag = res.owned.val.tag
        /\ res.borrowed.val.tag # "Me" =>
               /\ res.borrowed.val.s = res.owned.val.s
               /\ res.owned.val.s = req.text

C14_Witness ==
    /\ Done("owner_visit")
    /\ req.text = <<"M", "E">>
    /\ res.borrowed = Ok(Email(<<"M", "E">>))
    /\ res.owned = Ok(Email(<<"M", "E">>))

====
